---- MODULE Spec2Model ----
(***************************************************************************)
(* The consensus coordinator of simperby (consensus/src/lib.rs): the       *)
(* State blob, the message filter, and the operations of Consensus, with   *)
(* the store, the distributed message set (DMS) and the vetomint engine    *)
(* as collaborators.                                                       *)
(***************************************************************************)
EXTENDS Integers, Sequences, FiniteSets, TLC

VARIABLES
    state,                  \* Consensus::state, the in-memory State (with no instance:
                            \* the State a re-open would load from the blob)
    verified_block_hashes,  \* Consensus::verified_block_hashes, the view shared with the filter
    this_node_key,          \* Consensus::this_node_key
    storage,                \* the contents of state.json in the store
    dms,                    \* the messages of the distributed message set
    inst                    \* "open" while a Consensus instance exists, "none" otherwise

vars == <<state, verified_block_hashes, this_node_key, storage, dms, inst>>

----------------------------------------------------------------------------
(* Bounds of the model. *)

\* the longest verified_block_hashes the operator builds
MaxVerified == 2

----------------------------------------------------------------------------
(* Values. *)

\* Option<T>: None is the empty tuple, Some(x) is <<x>>.
None == <<>>
Some(x) == <<x>>
IsSome(o) == o /= <<>>
Unwrap(o) == o[1]

\* BlockIdentifier::MAX, in the width of the model's integers.
NIL_BLOCK_PROPOSAL_INDEX == 2147483647

\* Private keys are named by their public keys; "NoKey" is Option::None.
ValidatorSet == << <<"K0", 1>>, <<"K1", 3>> >>
BlockHashes == {1, 2}

\* Vec helpers, with the 0-based indices of the code.
Elems(v) == {v[i] : i \in 1..Len(v)}
Position(v, x) ==
    IF x \in Elems(v)
    THEN Some((CHOOSE i \in 1..Len(v) : v[i] = x /\ \A j \in 1..(i - 1) : v[j] /= x) - 1)
    ELSE None
Get(v, i) == IF i >= 0 /\ i < Len(v) THEN Some(v[i + 1]) ELSE None

----------------------------------------------------------------------------
(* ConsensusMessage and its JSON form. *)

Proposal(round, valid_round, block_hash) ==
    [tag |-> "Proposal", round |-> round, valid_round |-> valid_round, block_hash |-> block_hash]
NonNilPreVoted(round, block_hash) ==
    [tag |-> "NonNilPreVoted", round |-> round, block_hash |-> block_hash]
NonNilPreCommitted(round, block_hash) ==
    [tag |-> "NonNilPreCommitted", round |-> round, block_hash |-> block_hash]
NilPreVoted(round) == [tag |-> "NilPreVoted", round |-> round]
NilPreCommitted(round) == [tag |-> "NilPreCommitted", round |-> round]

\* serde_json::to_string: the payload is the tuple of the variant's name and fields.
to_string(cm) ==
    CASE cm.tag = "Proposal" -> <<cm.tag, cm.round, cm.valid_round, cm.block_hash>>
      [] cm.tag \in {"NonNilPreVoted", "NonNilPreCommitted"} -> <<cm.tag, cm.round, cm.block_hash>>
      [] OTHER -> <<cm.tag, cm.round>>

\* serde_json::from_str: Some(message) when the payload has a variant's shape.
from_str(data) ==
    CASE Len(data) = 4 /\ data[1] = "Proposal" -> Some(Proposal(data[2], data[3], data[4]))
      [] Len(data) = 3 /\ data[1] = "NonNilPreVoted" -> Some(NonNilPreVoted(data[2], data[3]))
      [] Len(data) = 3 /\ data[1] = "NonNilPreCommitted" -> Some(NonNilPreCommitted(data[2], data[3]))
      [] Len(data) = 2 /\ data[1] = "NilPreVoted" -> Some(NilPreVoted(data[2]))
      [] Len(data) = 2 /\ data[1] = "NilPreCommitted" -> Some(NilPreCommitted(data[2]))
      [] OTHER -> None

\* dms::Message: the payload and the signer of its signature.
Message(data, signer) == [data |-> data, signer |-> signer]

KeyCode(k) == CASE k = "K0" -> 0 [] k = "K1" -> 1 [] OTHER -> 2
TagCode(d) ==
    CASE d[1] = "NonNilPreCommitted" -> 1
      [] d[1] = "NilPreCommitted" -> 2
      [] d[1] = "NonNilPreVoted" -> 3
      [] d[1] = "NilPreVoted" -> 4
      [] d[1] = "Proposal" -> 5
      [] OTHER -> 6
FieldCode(d) ==
    CASE Len(d) = 4 -> (d[4] % 8) * 8 + d[2] * 2 + (IF IsSome(d[3]) THEN 1 ELSE 0)
      [] Len(d) = 3 -> (d[3] % 8) * 8 + d[2] * 2
      [] Len(d) = 2 -> d[2] * 2
      [] OTHER -> 0
\* Message::to_hash256: the content hash, a digest of payload and signature.
ToHash256(m) == (TagCode(m.data) * 64 + FieldCode(m.data)) * 3 + KeyCode(m.signer)

\* the block hash a message refers to, if any
ReferencedHash(cm) ==
    IF cm.tag \in {"Proposal", "NonNilPreVoted", "NonNilPreCommitted"}
    THEN Some(cm.block_hash) ELSE None

----------------------------------------------------------------------------
(* The vetomint engine: its events, its responses, and a weighted         *)
(* propose / prevote / precommit / finalize state machine.                 *)

BlockCandidateUpdated(proposal) == [type |-> "BlockCandidateUpdated", proposal |-> proposal]
SkipRound(round) == [type |-> "SkipRound", round |-> round]
BlockProposalReceived(proposal, valid, valid_round, proposer, round, favor) ==
    [type |-> "BlockProposalReceived", proposal |-> proposal, valid |-> valid,
     valid_round |-> valid_round, proposer |-> proposer, round |-> round, favor |-> favor]
Prevote(proposal, signer, round) ==
    [type |-> "Prevote", proposal |-> proposal, signer |-> signer, round |-> round]
Precommit(proposal, signer, round) ==
    [type |-> "Precommit", proposal |-> proposal, signer |-> signer, round |-> round]

BroadcastProposal(proposal, valid_round, round) ==
    [type |-> "BroadcastProposal", proposal |-> proposal, valid_round |-> valid_round, round |-> round]
BroadcastPrevote(proposal, round) ==
    [type |-> "BroadcastPrevote", proposal |-> proposal, round |-> round]
BroadcastPrecommit(proposal, round) ==
    [type |-> "BroadcastPrecommit", proposal |-> proposal, round |-> round]
FinalizeBlock(proposal) == [type |-> "FinalizeBlock", proposal |-> proposal]
ViolationReport(violator, description) ==
    [type |-> "ViolationReport", violator |-> violator, description |-> description]

\* Vetomint::new(height_info). `applied` is a history field: how many times this
\* engine value has been fed the event of the message with each content hash.
VetomintNew(validators, this_node_index) ==
    [validators |-> validators,
     this_node_index |-> this_node_index,
     block_candidate |-> NIL_BLOCK_PROPOSAL_INDEX,
     proposed |-> FALSE,
     prevoted |-> {},
     precommitted |-> {},
     prevotes |-> {},
     precommits |-> {},
     skipped |-> {},
     decided |-> FALSE,
     applied |-> <<>>]

RECURSIVE SumPower(_, _)
SumPower(validators, signers) ==
    IF signers = {} THEN 0
    ELSE LET s == CHOOSE x \in signers : TRUE
         IN  validators[s + 1] + SumPower(validators, signers \ {s})

TotalPower(validators) == SumPower(validators, 0..(Len(validators) - 1))

\* more than two thirds of the voting power voted `proposal` in `round`
Quorum(validators, votes, round, proposal) ==
    3 * SumPower(validators, {v[1] : v \in {w \in votes : w[2] = round /\ w[3] = proposal}})
        > 2 * TotalPower(validators)

\* the same signer voted something else in the same round
Equivocates(votes, signer, round, proposal) ==
    \E v \in votes : v[1] = signer /\ v[2] = round /\ v[3] /= proposal

\* the vote of this node, when it is a validator
OwnVote(me, round, proposal) == IF IsSome(me) THEN {<<Unwrap(me), round, proposal>>} ELSE {}

\* Vetomint::progress(event, timestamp): the new engine and the responses. Votes are
\* answered with broadcast responses whether or not this node is a validator; the
\* coordinator is the one that refuses to broadcast without a key.
VetomintProgress(v, event) ==
    LET me == v.this_node_index
        out(w, rs) == [vetomint |-> w, responses |-> rs]
    IN
    CASE event.type = "BlockCandidateUpdated" ->
            LET w == [v EXCEPT !.block_candidate = event.proposal]
            IN  IF me = Some(0) /\ ~v.proposed
                THEN out([w EXCEPT !.proposed = TRUE],
                         <<BroadcastProposal(event.proposal, None, 0)>>)
                ELSE out(w, <<>>)
      [] event.type = "SkipRound" ->
            LET w == [v EXCEPT !.skipped = @ \cup {event.round}]
            IN  IF event.round \notin v.prevoted
                THEN out([w EXCEPT !.prevoted = @ \cup {event.round},
                                   !.prevotes = @ \cup OwnVote(me, event.round, None)],
                         <<BroadcastPrevote(None, event.round)>>)
                ELSE out(w, <<>>)
      [] event.type = "BlockProposalReceived" ->
            LET vote == IF event.valid /\ event.favor THEN Some(event.proposal) ELSE None
            IN  IF event.round \notin v.prevoted
                THEN out([v EXCEPT !.prevoted = @ \cup {event.round},
                                   !.prevotes = @ \cup OwnVote(me, event.round, vote)],
                         <<BroadcastPrevote(vote, event.round)>>)
                ELSE out(v, <<>>)
      [] event.type = "Prevote" ->
            LET votes == v.prevotes \cup {<<event.signer, event.round, event.proposal>>}
                report == IF Equivocates(v.prevotes, event.signer, event.round, event.proposal)
                          THEN <<ViolationReport(event.signer, "double prevote")>> ELSE <<>>
                reached == /\ IsSome(event.proposal)
                           /\ ~Quorum(v.validators, v.prevotes, event.round, event.proposal)
                           /\ Quorum(v.validators, votes, event.round, event.proposal)
                           /\ event.round \notin v.precommitted
            IN  IF reached
                THEN out([v EXCEPT !.prevotes = votes,
                                   !.precommitted = @ \cup {event.round},
                                   !.precommits = @ \cup OwnVote(me, event.round, event.proposal)],
                         report \o <<BroadcastPrecommit(event.proposal, event.round)>>)
                ELSE out([v EXCEPT !.prevotes = votes], report)
      [] event.type = "Precommit" ->
            LET votes == v.precommits \cup {<<event.signer, event.round, event.proposal>>}
                report == IF Equivocates(v.precommits, event.signer, event.round, event.proposal)
                          THEN <<ViolationReport(event.signer, "double precommit")>> ELSE <<>>
                reached == /\ IsSome(event.proposal)
                           /\ ~v.decided
                           /\ Quorum(v.validators, votes, event.round, event.proposal)
            IN  IF reached
                THEN out([v EXCEPT !.precommits = votes, !.decided = TRUE],
                         report \o <<FinalizeBlock(Unwrap(event.proposal))>>)
                ELSE out([v EXCEPT !.precommits = votes], report)

\* one more application of `digest` in the history field
Count(applied, digest) ==
    IF digest \in DOMAIN applied
    THEN [applied EXCEPT ![digest] = @ + 1]
    ELSE applied @@ (digest :> 1)

\* one step of the message loop of progress: the engine is fed the event of the
\* message with content hash `digest`
FeedMessage(v, event, digest) ==
    LET r == VetomintProgress(v, event)
    IN  [vetomint |-> [r.vetomint EXCEPT !.applied = Count(@, digest)],
         responses |-> r.responses]

----------------------------------------------------------------------------
(* The coordinator: State, the filter, and the private methods.           *)

\* Consensus::create: the State written to state.json.
CreateState(validator_set, this_node_index) ==
    [vetomint |-> VetomintNew([i \in 1..Len(validator_set) |-> validator_set[i][2]],
                              this_node_index),
     updated_messages |-> {},
     verified_block_hashes |-> <<>>,
     vetoed_block_hashes |-> <<>>,
     validator_set |-> validator_set,
     finalized |-> FALSE,
     this_node_index |-> this_node_index]

PublicKeys(validator_set) == {validator_set[i][1] : i \in 1..Len(validator_set)}

\* ConsensusMessageFilter::filter: "" is Ok(()), anything else the Err string.
filter(view, validator_set, message) ==
    IF ~IsSome(from_str(message.data)) THEN "decode error"
    ELSE IF message.signer \notin validator_set
    THEN "the signer is not in the validator set"
    ELSE IF ToHash256(message) \in view
    THEN ""
    ELSE "the block hash is not verified yet."

\* get_block_index without its error: a hash that is not in the list gets index 0
get_block_index_unchecked(st, block_hash) ==
    IF IsSome(Position(st.verified_block_hashes, block_hash))
    THEN Position(st.verified_block_hashes, block_hash)
    ELSE Some(0)

\* Consensus::get_block_index: Some(index) or None for Err("block not verified").
get_block_index(st, block_hash) == Position(st.verified_block_hashes, block_hash)

\* Consensus::abort_if_finalized
abort_if_finalized(st) == IF st.finalized THEN "operation on finalized state" ELSE ""

\* the position of the signer in validator_set (progress, lines 260-265)
SignerIndex(st, message) ==
    Position([i \in 1..Len(st.validator_set) |-> st.validator_set[i][1]], message.signer)

\* consensus_message_to_event that never looks at vetoed_block_hashes: every proposal
\* is in favor
consensus_message_to_event_favoring(st, cm, signer) ==
    CASE cm.tag = "Proposal" ->
            LET index == get_block_index(st, cm.block_hash)
            IN  IF IsSome(index)
                THEN Some(BlockProposalReceived(Unwrap(index), TRUE, cm.valid_round, signer,
                          cm.round, TRUE))
                ELSE None
      [] cm.tag = "NonNilPreVoted" ->
            LET index == get_block_index(st, cm.block_hash)
            IN  IF IsSome(index) THEN Some(Prevote(index, signer, cm.round)) ELSE None
      [] cm.tag = "NonNilPreCommitted" ->
            LET index == get_block_index(st, cm.block_hash)
            IN  IF IsSome(index) THEN Some(Precommit(index, signer, cm.round)) ELSE None
      [] cm.tag = "NilPreVoted" -> Some(Prevote(None, signer, cm.round))
      [] cm.tag = "NilPreCommitted" -> Some(Precommit(None, signer, cm.round))

\* Consensus::consensus_message_to_event: Some(event), or None where an expect panics.
consensus_message_to_event(st, cm, signer) ==
    CASE cm.tag = "Proposal" ->
            LET index == get_block_index(st, cm.block_hash)
            IN  IF IsSome(index)
                THEN Some(BlockProposalReceived(Unwrap(index), TRUE, cm.valid_round, signer,
                          cm.round, cm.block_hash \notin Elems(st.vetoed_block_hashes)))
                ELSE None
      [] cm.tag = "NonNilPreVoted" ->
            LET index == get_block_index(st, cm.block_hash)
            IN  IF IsSome(index) THEN Some(Prevote(index, signer, cm.round)) ELSE None
      [] cm.tag = "NonNilPreCommitted" ->
            LET index == get_block_index(st, cm.block_hash)
            IN  IF IsSome(index) THEN Some(Precommit(index, signer, cm.round)) ELSE None
      [] cm.tag = "NilPreVoted" -> Some(Prevote(None, signer, cm.round))
      [] cm.tag = "NilPreCommitted" -> Some(Precommit(None, signer, cm.round))

\* ProgressResult (the timestamp, which only passes through, is left out)
Proposed(round, block_hash) == [tag |-> "Proposed", round |-> round, block_hash |-> block_hash]
ResultOf(cm) ==
    IF cm.tag \in {"NonNilPreVoted", "NonNilPreCommitted"}
    THEN [tag |-> cm.tag, round |-> cm.round, block_hash |-> cm.block_hash]
    ELSE [tag |-> cm.tag, round |-> cm.round]
Finalized(block_hash) == [tag |-> "Finalized", block_hash |-> block_hash]
ViolationReported(pubkey, description) ==
    [tag |-> "ViolationReported", pubkey |-> pubkey, description |-> description]

\* Consensus::broadcast_consensus_message: the message is signed with the key of the
\* network configuration and handed to DMS::add_message, which fails or adds it.
broadcast_consensus_message(msgs, network_key, cm, fails) ==
    IF fails
    THEN [dms |-> msgs, err |-> "broadcast failed"]
    ELSE [dms |-> msgs \cup {Message(to_string(cm), network_key)}, err |-> ""]

\* the three broadcasting arms of process_single_response, after the message and
\* the result have been built
BroadcastArm(st, network_key, msgs, cm, result, fails) ==
    LET b == broadcast_consensus_message(msgs, network_key, cm, fails)
    IN  [state |-> st, dms |-> b.dms, err |-> b.err,
         result |-> IF b.err = "" THEN <<result>> ELSE <<>>]

Panic(st, msgs) == [state |-> st, dms |-> msgs, err |-> "panic", result |-> <<>>]

\* Consensus::process_single_response
process_single_response(st, key, network_key, msgs, response, fails) ==
    CASE response.type = "BroadcastProposal" ->
            IF key = "NoKey"
            THEN [state |-> st, dms |-> msgs, err |-> "this node is not a validator",
                  result |-> <<>>]
            ELSE LET block_hash == Get(st.verified_block_hashes, response.proposal)
                 IN  IF ~IsSome(block_hash) THEN Panic(st, msgs)
                     ELSE BroadcastArm(st, network_key, msgs,
                              Proposal(response.round, response.valid_round, Unwrap(block_hash)),
                              Proposed(response.round, Unwrap(block_hash)), fails)
      [] response.type \in {"BroadcastPrevote", "BroadcastPrecommit"} ->
            IF key = "NoKey"
            THEN [state |-> st, dms |-> msgs, err |-> "this node is not a validator",
                  result |-> <<>>]
            ELSE IF IsSome(response.proposal)
            THEN LET block_hash == Get(st.verified_block_hashes, Unwrap(response.proposal))
                     cm == IF response.type = "BroadcastPrevote"
                           THEN NonNilPreVoted(response.round, Unwrap(block_hash))
                           ELSE NonNilPreCommitted(response.round, Unwrap(block_hash))
                 IN  IF ~IsSome(block_hash) THEN Panic(st, msgs)
                     ELSE BroadcastArm(st, network_key, msgs, cm, ResultOf(cm), fails)
            ELSE LET cm == IF response.type = "BroadcastPrevote"
                           THEN NilPreVoted(response.round)
                           ELSE NilPreCommitted(response.round)
                 IN  BroadcastArm(st, network_key, msgs, cm, ResultOf(cm), fails)
      [] response.type = "FinalizeBlock" ->
            LET block_hash == Get(st.verified_block_hashes, response.proposal)
            IN  IF ~IsSome(block_hash) THEN Panic(st, msgs)
                ELSE [state |-> [st EXCEPT !.finalized = TRUE], dms |-> msgs, err |-> "",
                      result |-> <<Finalized(Unwrap(block_hash))>>]
      [] response.type = "ViolationReport" ->
            LET v == Get(st.validator_set, response.violator)
            IN  IF ~IsSome(v) THEN Panic(st, msgs)
                ELSE [state |-> st, dms |-> msgs, err |-> "",
                      result |-> <<ViolationReported(Unwrap(v)[1], response.description)>>]

\* process_multiple_responses without the `?`: an error of one response is dropped
\* and the next response is processed
RECURSIVE process_multiple_responses_lenient(_, _, _, _, _, _, _, _)
process_multiple_responses_lenient(st, key, network_key, msgs, responses, i, failAt, final_result) ==
    IF i > Len(responses)
    THEN [state |-> st, dms |-> msgs, err |-> "", result |-> final_result]
    ELSE LET r == process_single_response(st, key, network_key, msgs, responses[i], i = failAt)
         IN  process_multiple_responses_lenient(r.state, key, network_key, r.dms, responses,
                                                i + 1, failAt, final_result \o r.result)

\* Consensus::process_multiple_responses: the responses in order, stopping at the
\* first error; the broadcast of response number failAt (if it is one) fails.
RECURSIVE process_multiple_responses(_, _, _, _, _, _, _, _)
process_multiple_responses(st, key, network_key, msgs, responses, i, failAt, final_result) ==
    IF i > Len(responses)
    THEN [state |-> st, dms |-> msgs, err |-> "", result |-> final_result]
    ELSE LET r == process_single_response(st, key, network_key, msgs, responses[i], i = failAt)
         IN  IF r.err /= ""
             THEN [state |-> r.state, dms |-> r.dms, err |-> r.err, result |-> <<>>]
             ELSE process_multiple_responses(r.state, key, network_key, r.dms, responses,
                                             i + 1, failAt, final_result \o r.result)

\* DMS::read_messages: the whole set, in the order of the content hashes.
RECURSIVE read_messages(_)
read_messages(msgs) ==
    IF msgs = {} THEN <<>>
    ELSE LET m == CHOOSE x \in msgs : \A y \in msgs : ToHash256(x) <= ToHash256(y)
         IN  <<m>> \o read_messages(msgs \ {m})

\* progress without the filter on updated_messages: everything read is new
NewMessages_unfiltered(st, messages) == messages

\* progress, lines 248-254: the messages not yet in updated_messages
NewMessages(st, messages) ==
    SelectSeq(messages, LAMBDA m : ToHash256(m) \notin st.updated_messages)

\* progress, lines 257-270: the message loop on the copy of the engine. `fed` lists
\* what was fed to the copy; err is "panic" where an expect fails.
RECURSIVE MessageLoop(_, _, _, _, _, _)
MessageLoop(st, messages, i, vetomint_copy, progress_responses, fed) ==
    IF i > Len(messages)
    THEN [vetomint |-> vetomint_copy, responses |-> progress_responses, fed |-> fed, err |-> ""]
    ELSE LET message == messages[i]
             signer == SignerIndex(st, message)
             cm == from_str(message.data)
             event == IF IsSome(signer) /\ IsSome(cm)
                      THEN consensus_message_to_event(st, Unwrap(cm), Unwrap(signer))
                      ELSE None
         IN  IF ~IsSome(event)
             THEN [vetomint |-> vetomint_copy, responses |-> progress_responses, fed |-> fed,
                   err |-> "panic"]
             ELSE LET r == FeedMessage(vetomint_copy, Unwrap(event), ToHash256(message))
                  IN  MessageLoop(st, messages, i + 1, r.vetomint,
                                  progress_responses \o r.responses,
                                  Append(fed, [message |-> message, event |-> Unwrap(event)]))

----------------------------------------------------------------------------
(* The store and the calls, each as the function of the instance and its  *)
(* inputs that the code computes. err is "" for Ok, the error otherwise,   *)
(* and "panic" where an expect fails.                                      *)

\* serde_json::to_string(&state): the fields of State in declaration order
StateToJson(st) ==
    <<st.vetomint, st.updated_messages, st.verified_block_hashes, st.vetoed_block_hashes,
      st.validator_set, st.this_node_index, st.finalized>>

\* serde_json::from_str::<State>
StateFromJson(blob) ==
    [vetomint |-> blob[1],
     updated_messages |-> blob[2],
     verified_block_hashes |-> blob[3],
     vetoed_block_hashes |-> blob[4],
     validator_set |-> blob[5],
     this_node_index |-> blob[6],
     finalized |-> blob[7]]

\* Storage::add_or_overwrite_file(STATE_FILE_NAME, ..): the new blob, or the old
\* one when the write fails
add_or_overwrite_file(blob, st, storeFails) == IF storeFails THEN blob ELSE StateToJson(st)

\* commit_state_to_storage that serialises the state without its engine, whose
\* part of the blob stays as it was
commit_state_to_storage_partial(st, blob, storeFails) ==
    [storage |-> add_or_overwrite_file(blob, [st EXCEPT !.vetomint = StateFromJson(blob).vetomint],
                                       storeFails),
     err |-> IF storeFails THEN "failed to commit consensus state to the storage" ELSE ""]

\* Consensus::commit_state_to_storage
commit_state_to_storage(st, blob, storeFails) ==
    [storage |-> add_or_overwrite_file(blob, st, storeFails),
     err |-> IF storeFails THEN "failed to commit consensus state to the storage" ELSE ""]

\* Consensus::new without the comparison of the key with the validator at
\* this_node_index
new_unchecked(blob, key, readFails) ==
    [state |-> StateFromJson(blob), verified_block_hashes |-> {}, this_node_key |-> key,
     filter_set |-> ~readFails, err |-> IF readFails THEN "read failed" ELSE ""]

\* Consensus::new: the instance built from the blob, with the view the filter gets;
\* filter_set tells whether dms.set_filter was reached
new(blob, key, readFails) ==
    LET loaded == StateFromJson(blob)
        err == IF readFails THEN "read failed"
               ELSE IF IsSome(loaded.this_node_index)
               THEN IF key = "NoKey" THEN "private key is required"
                    ELSE IF loaded.validator_set[Unwrap(loaded.this_node_index) + 1][1] /= key
                    THEN "private key does not match"
                    ELSE ""
               ELSE ""
    IN  [state |-> loaded, verified_block_hashes |-> {}, this_node_key |-> key,
         filter_set |-> err = "", err |-> err]

\* Consensus::register_verified_block_hash
register_verified_block_hash(st, view, blob, hash, storeFails) ==
    IF abort_if_finalized(st) /= ""
    THEN [state |-> st, verified_block_hashes |-> view, storage |-> blob,
          err |-> abort_if_finalized(st)]
    ELSE LET pushed == [st EXCEPT !.verified_block_hashes = Append(@, hash)]
         IN  [state |-> pushed,
              verified_block_hashes |-> view \cup {hash},
              storage |-> add_or_overwrite_file(blob, pushed, storeFails),
              err |-> IF storeFails THEN "write failed" ELSE ""]

\* what set_proposal_candidate and veto_round do with their event: the live engine
\* is advanced, then the responses are processed
LocalEvent(st, key, msgs, event, network_key, failAt) ==
    LET r == VetomintProgress(st.vetomint, event)
        p == process_multiple_responses([st EXCEPT !.vetomint = r.vetomint], key, network_key,
                                        msgs, r.responses, 1, failAt, <<>>)
    IN  [state |-> p.state, dms |-> p.dms, err |-> p.err, result |-> p.result,
         responses |-> r.responses]

Unchanged(st, msgs, err) ==
    [state |-> st, dms |-> msgs, err |-> err, result |-> <<>>, responses |-> <<>>]

\* Consensus::set_proposal_candidate
set_proposal_candidate(st, key, msgs, block_hash, network_key, failAt) ==
    IF abort_if_finalized(st) /= "" THEN Unchanged(st, msgs, abort_if_finalized(st))
    ELSE IF ~IsSome(get_block_index(st, block_hash))
    THEN Unchanged(st, msgs, "block not verified")
    ELSE LocalEvent(st, key, msgs, BlockCandidateUpdated(Unwrap(get_block_index(st, block_hash))),
                    network_key, failAt)

\* veto_block that pushes the hash on the list of verified hashes as well
veto_block_verifying(st, block_hash) ==
    IF abort_if_finalized(st) /= ""
    THEN [state |-> st, err |-> abort_if_finalized(st)]
    ELSE [state |-> [st EXCEPT !.vetoed_block_hashes = Append(@, block_hash),
                               !.verified_block_hashes = Append(@, block_hash)],
          err |-> ""]

\* Consensus::veto_block
veto_block(st, block_hash) ==
    IF abort_if_finalized(st) /= ""
    THEN [state |-> st, err |-> abort_if_finalized(st)]
    ELSE [state |-> [st EXCEPT !.vetoed_block_hashes = Append(@, block_hash)], err |-> ""]

\* Consensus::veto_round
veto_round(st, key, msgs, round, network_key, failAt) ==
    IF abort_if_finalized(st) /= "" THEN Unchanged(st, msgs, abort_if_finalized(st))
    ELSE LocalEvent(st, key, msgs, SkipRound(round), network_key, failAt)

\* Consensus::fetch: DMS::fetch fails, or offers a peer's message to the filter and
\* adds it to the set when the filter accepts it
fetch(st, view, msgs, message, fails) ==
    IF fails THEN [dms |-> msgs, err |-> "fetch failed"]
    ELSE [dms |-> IF filter(view, PublicKeys(st.validator_set), message) = ""
                  THEN msgs \cup {message} ELSE msgs,
          err |-> ""]

\* Consensus::progress. fault says what goes wrong: nothing, the read of the message
\* set, the broadcast of response number fault.at, or the write of the blob.
\* Besides the new instance, set and blob: batch is the content hashes of the
\* messages read as new, fed what the engine copy was fed, shadow that copy after
\* the loop, responses its answers.
progress(st, key, msgs, blob, network_key, fault) ==
    LET idle(err) == [state |-> st, dms |-> msgs, storage |-> blob, err |-> err,
                      result |-> <<>>, batch |-> {}, fed |-> <<>>, shadow |-> st.vetomint,
                      responses |-> <<>>]
        messages == NewMessages(st, read_messages(msgs))
        batch == {ToHash256(messages[i]) : i \in 1..Len(messages)}
        loop == MessageLoop(st, messages, 1, st.vetomint, <<>>, <<>>)
        p == process_multiple_responses(st, key, network_key, msgs, loop.responses, 1,
                                        fault.at, <<>>)
        committed == [p.state EXCEPT !.updated_messages = @ \cup batch,
                                     !.vetomint = loop.vetomint]
        c == commit_state_to_storage(committed, blob, fault.kind = "store")
        out(state_, dms_, storage_, err, result) ==
            [state |-> state_, dms |-> dms_, storage |-> storage_, err |-> err,
             result |-> result, batch |-> batch, fed |-> loop.fed, shadow |-> loop.vetomint,
             responses |-> loop.responses]
    IN  IF abort_if_finalized(st) /= "" THEN idle(abort_if_finalized(st))
        ELSE IF fault.kind = "read" THEN idle("read failed")
        ELSE IF loop.err /= "" THEN out(st, msgs, blob, loop.err, <<>>)
        ELSE IF p.err /= "" THEN out(p.state, p.dms, blob, p.err, <<>>)
        ELSE out(committed, p.dms, c.storage, c.err, IF c.err = "" THEN p.result ELSE <<>>)

----------------------------------------------------------------------------
(* The inputs.                                                             *)

\* the messages peers offer to the message set
PeerPrecommit == Message(to_string(NonNilPreCommitted(0, 1)), "K1")
PeerProposal == Message(to_string(Proposal(0, None, 1)), "K1")
PeerOutsider == Message(to_string(NonNilPreVoted(0, 1)), "KX")
PeerNil == Message(to_string(NilPreVoted(0)), "K1")
PeerGarbage == Message(<<"garbage">>, "K1")
PeerMessages == {PeerPrecommit, PeerProposal, PeerOutsider, PeerNil, PeerGarbage}

\* the Hash256 values the node registers as verified: a block hash, and (the type
\* is the same) the content hash of a message
HashInputs == {1, ToHash256(PeerPrecommit)}

\* the block hashes the operator vetoes, each once
VetoInputs == {1}
Rounds == {0}

\* the ones that reach this node in an exchange
Offered == {PeerPrecommit, PeerOutsider}

\* every key an open can be given
Keys == {"NoKey", "K0", "K1", "KX"}

\* the key the node is opened with: none, or (for a blob that names this node a
\* validator) the key K0
KeysFor(blob) == IF IsSome(StateFromJson(blob).this_node_index) THEN {"NoKey", "K0"} ELSE {"NoKey"}

\* what goes wrong in a progress call; a broadcast fails at a position of the
\* response list
FaultsOf(responses) ==
    {[kind |-> k, at |-> 0] : k \in {"none", "read", "store"}}
        \cup {[kind |-> "broadcast", at |-> k] : k \in 1..Len(responses)}

NoFault == [kind |-> "none", at |-> 0]

\* the calls on the open instance; the network configuration holds the node's key
OnRegister(hash, storeFails) ==
    register_verified_block_hash(state, verified_block_hashes, storage, hash, storeFails)
OnSetProposalCandidate(block_hash, failAt) ==
    set_proposal_candidate(state, this_node_key, dms, block_hash, this_node_key, failAt)
OnVetoRound(round, failAt) ==
    veto_round(state, this_node_key, dms, round, this_node_key, failAt)
OnProgress(fault) ==
    progress(state, this_node_key, dms, storage, this_node_key, fault)

ProgressFaults == FaultsOf(OnProgress(NoFault).responses)
CandidateFaults(block_hash) == 0..Len(OnSetProposalCandidate(block_hash, 0).responses)
RoundFaults(round) == 0..Len(OnVetoRound(round, 0).responses)

----------------------------------------------------------------------------
(* The state machine.                                                      *)

\* no instance: the process has gone, and with it everything in memory
Gone ==
    /\ inst' = "none"
    /\ state' = StateFromJson(storage)
    /\ verified_block_hashes' = {}
    /\ this_node_key' = "NoKey"

\* Consensus::create has written the blob; no instance is open
Init ==
    \E this_node_index \in {None, Some(0), Some(1)} :
        /\ storage = StateToJson(CreateState(ValidatorSet, this_node_index))
        /\ state = StateFromJson(storage)
        /\ verified_block_hashes = {}
        /\ this_node_key = "NoKey"
        /\ dms = {}
        /\ inst = "none"

New(key, readFails) ==
    /\ inst = "none"
    /\ LET o == new(storage, key, readFails)
       IN  IF o.err /= ""
           THEN UNCHANGED <<state, verified_block_hashes, this_node_key, inst>>
           ELSE /\ state' = o.state
                /\ verified_block_hashes' = o.verified_block_hashes
                /\ this_node_key' = o.this_node_key
                /\ inst' = "open"
    /\ UNCHANGED <<storage, dms>>

\* the process stops between two calls
Crash ==
    /\ inst = "open"
    /\ Gone
    /\ UNCHANGED <<storage, dms>>

\* Consensus::fetch: the anti-entropy exchange fails, or offers a peer's message to
\* the filter and adds it to the set when the filter accepts it
Fetch(message, fails) ==
    /\ inst = "open"
    /\ dms' = fetch(state, verified_block_hashes, dms, message, fails).dms
    /\ UNCHANGED <<state, verified_block_hashes, this_node_key, storage, inst>>

RegisterVerifiedBlockHash(hash, storeFails) ==
    /\ inst = "open"
    /\ Len(state.verified_block_hashes) < MaxVerified
    /\ LET o == OnRegister(hash, storeFails)
       IN  /\ state' = o.state
           /\ verified_block_hashes' = o.verified_block_hashes
           /\ storage' = o.storage
    /\ UNCHANGED <<this_node_key, dms, inst>>

\* a call that ran process_multiple_responses returns, or panics
Returned(o) ==
    /\ dms' = o.dms
    /\ IF o.err = "panic"
       THEN Gone
       ELSE /\ state' = o.state
            /\ UNCHANGED <<verified_block_hashes, this_node_key, inst>>

SetProposalCandidate(block_hash, failAt) ==
    /\ inst = "open"
    /\ Returned(OnSetProposalCandidate(block_hash, failAt))
    /\ UNCHANGED storage

VetoBlock(block_hash) ==
    /\ inst = "open"
    /\ block_hash \notin Elems(state.vetoed_block_hashes)
    /\ state' = veto_block(state, block_hash).state
    /\ UNCHANGED <<verified_block_hashes, this_node_key, storage, dms, inst>>

VetoRound(round, failAt) ==
    /\ inst = "open"
    /\ Returned(OnVetoRound(round, failAt))
    /\ UNCHANGED storage

Progress(fault) ==
    /\ inst = "open"
    /\ LET o == OnProgress(fault)
       IN  /\ Returned(o)
           /\ storage' = o.storage

\* the calls of the operator surface, with the messages peers offer to the set
Next ==
    \/ \E key \in KeysFor(storage), readFails \in BOOLEAN : New(key, readFails)
    \/ Crash
    \/ \E message \in Offered, fails \in BOOLEAN : Fetch(message, fails)
    \/ \E hash \in HashInputs, storeFails \in BOOLEAN : RegisterVerifiedBlockHash(hash, storeFails)
    \/ \E block_hash \in BlockHashes : \E failAt \in CandidateFaults(block_hash) :
          SetProposalCandidate(block_hash, failAt)
    \/ \E block_hash \in VetoInputs : VetoBlock(block_hash)
    \/ \E round \in Rounds : \E failAt \in RoundFaults(round) : VetoRound(round, failAt)
    \/ \E fault \in ProgressFaults : Progress(fault)

Spec == Init /\ [][Next]_vars

----------------------------------------------------------------------------
(* The properties.                                                         *)

\* C1: whenever register_verified_block_hash, set_proposal_candidate, veto_round
\* or progress returns Ok, the blob in the store equals the state in memory in
\* vetomint, updated_messages, verified_block_hashes, this_node_index,
\* validator_set and finalized, so that a re-open loads those same values.
C1_PersistedOnSuccess ==
    inst = "open" =>
        LET same(st, blob) ==
                LET disk == StateFromJson(blob)
                IN  /\ disk.vetomint = st.vetomint
                    /\ disk.updated_messages = st.updated_messages
                    /\ disk.verified_block_hashes = st.verified_block_hashes
                    /\ disk.this_node_index = st.this_node_index
                    /\ disk.validator_set = st.validator_set
                    /\ disk.finalized = st.finalized
        IN  /\ \A hash \in HashInputs, storeFails \in BOOLEAN :
                  LET o == OnRegister(hash, storeFails)
                  IN  o.err = "" => same(o.state, o.storage)
            /\ \A block_hash \in BlockHashes : \A failAt \in CandidateFaults(block_hash) :
                  LET o == OnSetProposalCandidate(block_hash, failAt)
                  IN  o.err = "" => same(o.state, storage)
            /\ \A round \in Rounds : \A failAt \in RoundFaults(round) :
                  LET o == OnVetoRound(round, failAt)
                  IN  o.err = "" => same(o.state, storage)
            /\ \A fault \in ProgressFaults :
                  LET o == OnProgress(fault)
                  IN  o.err = "" => same(o.state, o.storage)

\* C2: progress is all-or-nothing. Whatever fails (the read of the message set, a
\* broadcast, the write of the blob), when progress returns with a non-empty batch
\* either the live engine is the copy fed the whole batch, the batch's digests are
\* in updated_messages and the blob holds both, or engine, digests and blob are
\* all as they were.
C2_AllOrNothing ==
    inst = "open" =>
        \A fault \in ProgressFaults :
            LET o == OnProgress(fault)
                disk == StateFromJson(o.storage)
                all == /\ o.state.vetomint = o.shadow
                       /\ o.batch \subseteq o.state.updated_messages
                       /\ disk.vetomint = o.shadow
                       /\ o.batch \subseteq disk.updated_messages
                none == /\ o.state.vetomint = state.vetomint
                        /\ o.state.updated_messages = state.updated_messages
                        /\ o.storage = storage
            IN  o.err /= "panic" /\ o.batch /= {} => all \/ none

\* C3: when a broadcast, or the check that this node is a validator, fails while
\* progress processes the responses, at whatever position of the list, progress
\* returns the error with the state in memory and the blob exactly as before the
\* call, so that the next progress call feeds the same messages again.
C3_FailedBroadcastKeepsState ==
    inst = "open" =>
        \A fault \in ProgressFaults :
            LET o == OnProgress(fault)
                again == progress(o.state, this_node_key, o.dms, o.storage, this_node_key, NoFault)
            IN  o.err \in {"broadcast failed", "this node is not a validator"}
                    => /\ o.state = state
                       /\ o.storage = storage
                       /\ o.batch \subseteq again.batch

\* C4: finalized is monotone and absorbing. Once finalized is true in an open
\* instance it stays true, in memory and in what a re-open loads from the blob
\* (after a crash, state is what the blob holds); a true flag in the blob stays
\* true; and every call of register_verified_block_hash, set_proposal_candidate,
\* veto_block, veto_round and progress returns an error and changes neither the
\* state in memory nor the blob.
C4_FinalizedAbsorbing ==
    [][/\ StateFromJson(storage).finalized => StateFromJson(storage').finalized
       /\ (inst = "open" /\ state.finalized) =>
            /\ state'.finalized
            /\ \A hash \in HashInputs, storeFails \in BOOLEAN :
                  LET o == OnRegister(hash, storeFails)
                  IN  o.err /= "" /\ o.state = state /\ o.storage = storage
            /\ \A block_hash \in BlockHashes :
                  LET o == OnSetProposalCandidate(block_hash, 0)
                  IN  o.err /= "" /\ o.state = state
            /\ \A block_hash \in VetoInputs :
                  LET o == veto_block(state, block_hash)
                  IN  o.err /= "" /\ o.state = state
            /\ \A round \in Rounds :
                  LET o == OnVetoRound(round, 0)
                  IN  o.err /= "" /\ o.state = state
            /\ \A fault \in ProgressFaults :
                  LET o == OnProgress(fault)
                  IN  o.err /= "" /\ o.state = state /\ o.storage = storage]_vars

\* C5: the filter rejects a message exactly when its payload does not decode, or
\* its signer is not in the validator set, or the block hash it refers to (of a
\* Proposal, NonNilPreVoted or NonNilPreCommitted) is not in the shared view; a
\* NilPreVoted or NilPreCommitted of a validator is accepted.
C5_FilterRejectsExactly ==
    inst = "open" =>
        \A message \in PeerMessages :
            LET cm == from_str(message.data)
                keys == PublicKeys(state.validator_set)
                rejects == \/ ~IsSome(cm)
                           \/ message.signer \notin keys
                           \/ /\ IsSome(ReferencedHash(Unwrap(cm)))
                              /\ Unwrap(ReferencedHash(Unwrap(cm))) \notin verified_block_hashes
            IN  (filter(verified_block_hashes, keys, message) /= "") <=> rejects

\* C6: the filter is eventually permissive. A well-formed message of a validator
\* that refers to block hash H and is rejected while H is not in the view is
\* accepted when it is offered again after register_verified_block_hash(H) has
\* returned Ok on the same instance.
C6_EventuallyPermissive ==
    [][\A message \in PeerMessages :
          LET cm == from_str(message.data)
              keys == PublicKeys(state.validator_set)
          IN  (/\ inst = "open" /\ inst' = "open"
               /\ IsSome(cm)
               /\ message.signer \in keys
               /\ IsSome(ReferencedHash(Unwrap(cm)))
               /\ Unwrap(ReferencedHash(Unwrap(cm))) \notin verified_block_hashes
               /\ filter(verified_block_hashes, keys, message) /= ""
               /\ state'.verified_block_hashes
                    = Append(state.verified_block_hashes, Unwrap(ReferencedHash(Unwrap(cm))))
               /\ storage' = StateToJson(state'))
              => filter(verified_block_hashes', keys, message) = ""]_vars

\* C7: whenever an instance is open and no call is running, the shared view holds
\* exactly the elements of state.verified_block_hashes, also right after an open
\* on a blob whose list is not empty.
C7_ViewEqualsList ==
    inst = "open" => verified_block_hashes = Elems(state.verified_block_hashes)

\* C8: filter soundness. Every event the message loop of progress feeds to the
\* engine comes from a message that decodes, whose signer is in the validator set
\* and whose block hash, if it refers to one, is in state.verified_block_hashes.
\* (The loop runs before anything that fails later in the call.)
C8_FilterSoundness ==
    inst = "open" =>
        LET fed == OnProgress(NoFault).fed
        IN  \A i \in 1..Len(fed) :
                LET cm == from_str(fed[i].message.data)
                IN  /\ fed[i].message.signer \in PublicKeys(state.validator_set)
                    /\ IsSome(cm)
                    /\ IsSome(ReferencedHash(Unwrap(cm)))
                          => Unwrap(ReferencedHash(Unwrap(cm)))
                                \in Elems(state.verified_block_hashes)

\* progress has consumed a peer's message that refers to a block hash
C8_Witness ==
    /\ inst = "open"
    /\ \E m \in dms :
          /\ ToHash256(m) \in state.updated_messages
          /\ m.signer = "K1"
          /\ IsSome(ReferencedHash(Unwrap(from_str(m.data))))

\* C9: updated_messages is a subset of the content hashes of the messages in the
\* set, each of its digests has been applied to the live engine, and the set
\* only grows (after a crash, state is what a re-open loads).
C9_ConsumedSubsetAppliedGrowing ==
    [][/\ state'.updated_messages \subseteq {ToHash256(m) : m \in dms'}
       /\ state'.updated_messages \subseteq DOMAIN state'.vetomint.applied
       /\ state.updated_messages \subseteq state'.updated_messages]_vars

\* C10: no replay. The live engine and the engine in the blob have been fed each
\* content hash at most once, and no message whose digest is in updated_messages
\* is translated and fed by progress.
C10_NoReplay ==
    /\ \A d \in DOMAIN state.vetomint.applied : state.vetomint.applied[d] <= 1
    /\ \A d \in DOMAIN StateFromJson(storage).vetomint.applied :
          StateFromJson(storage).vetomint.applied[d] <= 1
    /\ inst = "open" =>
          LET fed == OnProgress(NoFault).fed
          IN  \A i \in 1..Len(fed) : ToHash256(fed[i].message) \notin state.updated_messages

\* an earlier progress has consumed messages, and the next one has a new batch
C10_Witness ==
    /\ inst = "open"
    /\ state.updated_messages /= {}
    /\ OnProgress(NoFault).batch /= {}
    /\ OnProgress(NoFault).err = ""

\* C11: idempotence of progress. When progress returns Ok and is called again
\* with no peer message and no local event in between, the second call returns
\* Ok with an empty list of results and broadcasts nothing. (A first call that
\* finalizes is left aside: after it every call fails.)
C11_ProgressIdempotent ==
    inst = "open" =>
        LET first == OnProgress(NoFault)
            second == progress(first.state, this_node_key, first.dms, first.storage,
                               this_node_key, NoFault)
        IN  (first.err = "" /\ ~first.state.finalized)
                => /\ second.err = ""
                   /\ second.result = <<>>
                   /\ second.dms = first.dms

\* C13: crash recovery. If the process stops inside progress after the engine was
\* advanced and before the blob was written, a re-open from the store followed by
\* progress on the same message set persists the blob that the uninterrupted
\* call would have persisted.
C13_CrashRecovery ==
    inst = "open" =>
        LET uncrashed == OnProgress(NoFault)
            reopened == new(storage, this_node_key, FALSE)
            rerun == progress(reopened.state, reopened.this_node_key, dms, storage,
                              reopened.this_node_key, NoFault)
        IN  (uncrashed.err = "" /\ reopened.err = "")
                => rerun.err = "" /\ rerun.storage = uncrashed.storage

\* C14: open checks the key. When the blob has this_node_index = Some(i), new
\* returns Ok only for a key whose public key is validator_set[i].0; with no key
\* or another key it fails, no instance comes to exist and set_filter is not
\* reached. An open instance of a validator therefore holds the validator's key.
C14_OpenChecksKey ==
    LET loaded == StateFromJson(storage)
        i == Unwrap(loaded.this_node_index)
    IN  /\ IsSome(loaded.this_node_index) =>
              \A key \in Keys :
                  LET o == new(storage, key, FALSE)
                  IN  /\ o.err = "" <=> (key /= "NoKey" /\ key = loaded.validator_set[i + 1][1])
                      /\ o.err /= "" => ~o.filter_set
        /\ (inst = "open" /\ IsSome(state.this_node_index)) =>
              this_node_key = state.validator_set[Unwrap(state.this_node_index) + 1][1]

\* the blob names validator K1 as this node, and an open with key K0 has failed
C14_Witness ==
    /\ inst = "none"
    /\ StateFromJson(storage).this_node_index = Some(1)
    /\ new(storage, "K0", FALSE).err = "private key does not match"
    /\ new(storage, "NoKey", FALSE).err = "private key is required"

\* C15: usage errors leave the instance intact. Whenever set_proposal_candidate
\* or veto_round returns an error for an unknown block hash, a finalized instance
\* or a response that needs a broadcast on a node without a key, the state in
\* memory (the live engine and finalized in particular) is as before the call.
C15_UsageErrorsKeepState ==
    inst = "open" =>
        LET usage == {"block not verified", "operation on finalized state",
                      "this node is not a validator"}
        IN  /\ \A block_hash \in BlockHashes :
                  LET o == OnSetProposalCandidate(block_hash, 0)
                  IN  o.err \in usage => o.state = state
            /\ \A round \in Rounds :
                  LET o == OnVetoRound(round, 0)
                  IN  o.err \in usage => o.state = state

\* C16: once a FinalizeBlock response has set finalized, every later call on the
\* instance fails: register_verified_block_hash, set_proposal_candidate,
\* veto_block, veto_round, progress and fetch.
C16_EveryCallFailsOnceFinalized ==
    (inst = "open" /\ state.finalized) =>
        /\ \A hash \in HashInputs : OnRegister(hash, FALSE).err /= ""
        /\ \A block_hash \in BlockHashes : OnSetProposalCandidate(block_hash, 0).err /= ""
        /\ \A block_hash \in VetoInputs : veto_block(state, block_hash).err /= ""
        /\ \A round \in Rounds : OnVetoRound(round, 0).err /= ""
        /\ OnProgress(NoFault).err /= ""
        /\ \A message \in PeerMessages :
              fetch(state, verified_block_hashes, dms, message, FALSE).err /= ""

\* C17: observer mode. On an instance opened without a key, a progress,
\* set_proposal_candidate or veto_round call whose engine responses are only
\* FinalizeBlock and ViolationReport returns Ok with the Finalized and
\* ViolationReported results, one per response; a call whose responses contain a
\* BroadcastProposal, BroadcastPrevote or BroadcastPrecommit returns the error
\* "this node is not a validator", adds nothing to the message set and returns
\* no result. (Calls that got as far as the responses, with no I/O failure.)
C17_ObserverMode ==
    (inst = "open" /\ this_node_key = "NoKey" /\ ~state.finalized) =>
        LET broadcasts(rs) ==
                \E i \in 1..Len(rs) :
                    rs[i].type \in {"BroadcastProposal", "BroadcastPrevote", "BroadcastPrecommit"}
            observed(o) ==
                IF broadcasts(o.responses)
                THEN /\ o.err = "this node is not a validator"
                     /\ o.result = <<>>
                     /\ o.dms = dms
                ELSE /\ o.err = ""
                     /\ Len(o.result) = Len(o.responses)
                     /\ \A i \in 1..Len(o.responses) :
                           o.result[i].tag = IF o.responses[i].type = "FinalizeBlock"
                                             THEN "Finalized" ELSE "ViolationReported"
        IN  /\ LET o == OnProgress(NoFault)
               IN  Len(o.fed) = Cardinality(o.batch) => observed(o)
            /\ \A block_hash \in BlockHashes :
                  IsSome(get_block_index(state, block_hash))
                      => observed(OnSetProposalCandidate(block_hash, 0))
            /\ \A round \in Rounds : observed(OnVetoRound(round, 0))

\* an observer whose progress returns Finalized, and whose veto_round is refused
C17_Witness ==
    /\ inst = "open"
    /\ this_node_key = "NoKey"
    /\ ~state.finalized
    /\ \E h \in BlockHashes : OnProgress(NoFault).result = <<Finalized(h)>>
    /\ \E round \in Rounds : OnVetoRound(round, 0).err = "this node is not a validator"

\* C18: the translation never fails inside progress. Every message progress
\* reads as new has its signer in validator_set, decodes, and refers (if at all)
\* to a block hash in the in-memory verified_block_hashes, so that no expect of
\* the message loop panics, also after a failed store write of
\* register_verified_block_hash or a crash and re-open.
C18_TranslationNeverFails ==
    (inst = "open" /\ ~state.finalized) =>
        LET messages == NewMessages(state, read_messages(dms))
        IN  /\ \A i \in 1..Len(messages) :
                  LET cm == from_str(messages[i].data)
                  IN  /\ messages[i].signer \in PublicKeys(state.validator_set)
                      /\ IsSome(cm)
                      /\ IsSome(ReferencedHash(Unwrap(cm)))
                            => Unwrap(ReferencedHash(Unwrap(cm)))
                                  \in Elems(state.verified_block_hashes)
            /\ OnProgress(NoFault).err /= "panic"

\* C19: block indices are stable. Once verified_block_hashes[i] = h, this stays
\* so in every later state (after a crash, state is what a re-open loads); and
\* every block index the engine holds (its candidate, the proposals of its
\* votes) or returns in a response of progress is an index of the list.
C19_IndicesStable ==
    [][LET held(st) ==
               ({st.vetomint.block_candidate} \ {NIL_BLOCK_PROPOSAL_INDEX})
                   \cup {Unwrap(v[3]) : v \in {w \in st.vetomint.prevotes \cup st.vetomint.precommits :
                                                  IsSome(w[3])}}
           returned(rs) ==
               {IF rs[i].type = "FinalizeBlock" THEN rs[i].proposal ELSE Unwrap(rs[i].proposal) :
                    i \in {j \in 1..Len(rs) :
                              \/ rs[j].type \in {"FinalizeBlock", "BroadcastProposal"}
                              \/ /\ rs[j].type \in {"BroadcastPrevote", "BroadcastPrecommit"}
                                 /\ IsSome(rs[j].proposal)}}
       IN  /\ \A i \in 1..Len(state.verified_block_hashes) :
                 /\ i <= Len(state'.verified_block_hashes)
                 /\ state'.verified_block_hashes[i] = state.verified_block_hashes[i]
           /\ \A i \in held(state') : IsSome(Get(state'.verified_block_hashes, i))
           /\ inst = "open" =>
                 \A i \in returned(OnProgress(NoFault).responses) :
                     IsSome(Get(state.verified_block_hashes, i))]_vars

\* C20: veto_block(h) on an instance that is not finalized changes only
\* vetoed_block_hashes, which gets h at its end: the engine, updated_messages,
\* verified_block_hashes, the shared view, finalized, the message set and the
\* blob are as before.
C20_VetoBlockFrame ==
    [][(/\ inst = "open" /\ inst' = "open"
        /\ ~state.finalized
        /\ state'.vetoed_block_hashes /= state.vetoed_block_hashes)
          => /\ \E h \in VetoInputs :
                   state'.vetoed_block_hashes = Append(state.vetoed_block_hashes, h)
             /\ state'.vetomint = state.vetomint
             /\ state'.updated_messages = state.updated_messages
             /\ state'.verified_block_hashes = state.verified_block_hashes
             /\ state'.validator_set = state.validator_set
             /\ state'.this_node_index = state.this_node_index
             /\ state'.finalized = state.finalized
             /\ verified_block_hashes' = verified_block_hashes
             /\ dms' = dms
             /\ storage' = storage]_vars

\* a block has been vetoed on the open instance, and the blob does not have it
C20_Witness ==
    /\ inst = "open"
    /\ ~state.finalized
    /\ state.vetoed_block_hashes /= <<>>
    /\ StateFromJson(storage).vetoed_block_hashes = <<>>

\* C21 (as stated): a Proposal for block hash h that progress translates gets
\* favor = false if veto_block(h) was called on this instance before, and
\* favor = true otherwise, with proposal = the index of h, valid = true, and the
\* proposer, round and valid_round of the message. Stated at the two moments where
\* the calls on the instance are known from the step: right after the instance is
\* opened (none yet), and at any later step (those in force before, and h where the
\* step is veto_block(h)).
C21_FavorFollowsVetoCalls ==
    [][inst' = "open" =>
        LET called == IF inst = "none" THEN {}
                      ELSE Elems(state.vetoed_block_hashes)
                               \cup {h \in VetoInputs : state' = veto_block(state, h).state}
            fed == progress(state', this_node_key', dms', storage', this_node_key', NoFault).fed
        IN  \A i \in 1..Len(fed) :
               LET cm == Unwrap(from_str(fed[i].message.data))
                   signer == Unwrap(SignerIndex(state', fed[i].message))
               IN  cm.tag = "Proposal" =>
                      fed[i].event =
                          BlockProposalReceived(Unwrap(get_block_index(state', cm.block_hash)),
                                                TRUE, cm.valid_round, signer, cm.round,
                                                cm.block_hash \notin called)]_vars

\* C21 (amended): the vetoes in force on an instance are those of the blob it was
\* opened from and those of the veto_block calls on it since (vetoed_block_hashes
\* holds exactly these); a Proposal for h that progress translates gets
\* favor = false exactly if h is among them, and the veto changes nothing else in
\* the event.
C21_FavorFollowsVetoList ==
    /\ [](inst = "open" =>
            LET fed == OnProgress(NoFault).fed
            IN  \A i \in 1..Len(fed) :
                   LET cm == Unwrap(from_str(fed[i].message.data))
                       signer == Unwrap(SignerIndex(state, fed[i].message))
                   IN  cm.tag = "Proposal" =>
                          fed[i].event =
                              BlockProposalReceived(
                                  Unwrap(get_block_index(state, cm.block_hash)), TRUE,
                                  cm.valid_round, signer, cm.round,
                                  cm.block_hash \notin Elems(state.vetoed_block_hashes)))
    /\ [][inst' = "open" =>
            Elems(state'.vetoed_block_hashes) =
                IF inst = "none"
                THEN Elems(StateFromJson(storage).vetoed_block_hashes)
                ELSE Elems(state.vetoed_block_hashes)
                         \cup {h \in VetoInputs : state' = veto_block(state, h).state}]_vars

\* progress translates a Proposal for a block that is vetoed on the instance
C21_Witness ==
    /\ inst = "open"
    /\ \E i \in 1..Len(OnProgress(NoFault).fed) :
          LET e == OnProgress(NoFault).fed[i].event
          IN  e.type = "BlockProposalReceived" /\ ~e.favor
                  /\ state.verified_block_hashes[e.proposal + 1] \in Elems(state.vetoed_block_hashes)


\* C22: the blob is always a complete State that was in memory at some moment:
\* create writes the whole fresh State, and every later step either leaves the
\* blob alone (a failed call, a failed write, a stop of the process) or replaces it
\* by the serialisation of the whole State the instance holds at that moment, which
\* an open reads back field for field.
C22_BlobIsSnapshot ==
    /\ \E this_node_index \in {None, Some(0), Some(1)} :
          storage = StateToJson(CreateState(ValidatorSet, this_node_index))
    /\ [][\/ storage' = storage
          \/ /\ inst = "open" /\ inst' = "open"
             /\ storage' = StateToJson(state')
             /\ StateFromJson(storage') = state'
             /\ new(storage', this_node_key', FALSE).err = ""
             /\ new(storage', this_node_key', FALSE).state = state']_vars

\* progress has written the blob and the instance has moved on since: the blob is
\* behind the memory
C22_Witness ==
    /\ inst = "open"
    /\ StateFromJson(storage).updated_messages /= {}
    /\ StateFromJson(storage) /= state

====
